---- MODULE Spec2Model ----
(***************************************************************************)
(* Real-time voice session manager of src/App.tsx (App component):         *)
(* startLiveSession, its connectLive callbacks (onopen, onmessage,         *)
(* onclose, onerror), the capture callback onaudioprocess, the playback    *)
(* completion callback node.onended, and stopLiveSession.                  *)
(*                                                                         *)
(* JavaScript runs every callback to completion on one thread; the only    *)
(* places where a callback yields are its awaits.  Each action below is    *)
(* one such run-to-completion segment.                                     *)
(***************************************************************************)
EXTENDS Integers, Sequences, FiniteSets, TLC

\* ---------------------------------------------------------------- bounds
\* start attempts (invocations of startLiveSession) in one behaviour
MaxAttempts == 2
\* inbound transport messages in one behaviour
MaxMsgs == 2
\* loudest RMS level a capture block can publish (0 is silence)
MaxLevel == 1
\* capture blocks delivered in one run
MaxBlocks == 2
\* sample values per int16 step: a sample is a multiple of 1/(32768 * Grain)
Grain == 4

Attempts == 1..MaxAttempts
MsgIds == 1..MaxMsgs
\* the empty ref: useRef(null); contexts and sessions are numbered from 1
NULL == 0

VARIABLES
  isLiveActive,      \* useState(false), line 27
  isModelSpeaking,   \* useState(false), line 28
  userVolume,        \* useState(0), line 29
  transcriptions,    \* useState({input: '', output: ''}), line 30
  audioContextRef,   \* useRef(null), line 49: NULL or the number of the context
  liveSessionRef,    \* useRef(null), line 50
  audioSourcesRef,   \* useRef(new Set()), line 51: the nodes in the set
  pc,                \* per attempt: position inside startLiveSession
  conn,              \* per attempt: the transport session connectLive opened
  capture,           \* per attempt: stream/inputCtx/source/scriptProcessor
  pending,           \* onmessage handlers suspended at the await of line 182
  nodes,             \* per message: the state of its AudioBufferSourceNode
  nmsgs,             \* inbound messages delivered so far
  ctxCreated,        \* how many playback AudioContexts were constructed
  closeCalls,        \* how many times liveSessionRef.current.close() ran
  arrivedOut,        \* history: output deltas in arrival order since the reset
  arrivedIn,         \* history: latest-arrived input delta since the reset
  lastEvent,         \* history: the callback that ran last
  stopRun,           \* history: consecutive runs of stopLiveSession
  sessionPromise,    \* per attempt: the promise connectLive returned, line 176
  thenQueue,         \* per attempt: blocks whose .then callback waits, line 199
  sentInput,         \* per attempt: blocks passed to sendRealtimeInput, in call order
  nblocks,           \* capture blocks delivered so far
  openable,          \* history: starts issued from Idle, not closed or opened since
  data,              \* line 194: the sample being converted, in units of 1/Unit
  int16,             \* line 197: the Int16Array element written for it
  loopI              \* lines 197-198: the index i of the conversion loop

appVars == <<isLiveActive, isModelSpeaking, userVolume, transcriptions,
          audioContextRef, liveSessionRef, audioSourcesRef, pc, conn, capture,
          pending, nodes, nmsgs, ctxCreated, closeCalls, arrivedOut,
          arrivedIn, lastEvent, stopRun, sessionPromise, thenQueue,
          sentInput, nblocks, openable>>

\* the sample-level state of the conversion loop of lines 197-198
convVars == <<data, int16, loopI>>

vars == <<appVars, convVars>>

\* the capture-to-transport part of the state
sendVars == <<sessionPromise, thenQueue, sentInput, nblocks>>

\* ------------------------------------------------------------------ Init
EmptyTranscriptions == [input |-> <<>>, output |-> <<>>]

\* a node is "none" until createBufferSource creates it, then "playing",
\* "played" (its output is over, onended not yet run) or "stopped" (stop() was
\* called, onended not yet run), and at last "ended"
NoNode == "none"

AppInit ==
  /\ isLiveActive = FALSE
  /\ isModelSpeaking = FALSE
  /\ userVolume = 0
  /\ transcriptions = EmptyTranscriptions
  /\ audioContextRef = NULL
  /\ liveSessionRef = NULL
  /\ audioSourcesRef = {}
  /\ pc = [a \in Attempts |-> "unused"]
  /\ conn = [a \in Attempts |-> "none"]
  /\ capture = [a \in Attempts |-> "none"]
  /\ pending = {}
  /\ nodes = [i \in MsgIds |-> NoNode]
  /\ nmsgs = 0
  /\ ctxCreated = 0
  /\ closeCalls = 0
  /\ arrivedOut = <<>>
  /\ arrivedIn = <<>>
  /\ lastEvent = "other"
  /\ stopRun = 0
  /\ sessionPromise = [a \in Attempts |-> "none"]
  /\ thenQueue = [a \in Attempts |-> <<>>]
  /\ sentInput = [a \in Attempts |-> <<>>]
  /\ nblocks = 0
  /\ openable = {}

\* no block is being converted: the session-level actions carry a block as a
\* whole and leave its samples to the conversion loop
Init ==
  /\ AppInit
  /\ data = 0 /\ int16 = 0 /\ loopI = 0

\* ------------------------------------------------------------- helpers
\* the callbacks whose name the history keeps; the others are recorded as "other"
Tracked == {"stop", "onerror", "onclose"}

\* every callback other than stopLiveSession ends a run of closes
Event(name) ==
  /\ lastEvent' = IF name \in Tracked THEN name ELSE "other"
  /\ stopRun' = 0

\* the attempts are used in order: attempt a is the a-th call of the function
NextAttempt(a) ==
  /\ pc[a] = "unused"
  /\ \A b \in Attempts : b < a => pc[b] # "unused"

\* a start is in flight: startLiveSession is at one of its awaits, or the
\* handshake was requested and neither onopen nor a close has arrived
Connecting ==
  \E a \in Attempts : pc[a] \in {"resume", "getUserMedia"} \/ conn[a] = "connecting"

Active == isLiveActive

Idle == ~isLiveActive /\ ~Connecting

\* ----------------------------------------------------- startLiveSession
\* line 201: catch (e) { console.error(e); setIsLiveActive(false); }
StartCatch(a) ==
  /\ pc' = [pc EXCEPT ![a] = "failed"]
  /\ isLiveActive' = FALSE
  /\ openable' = openable \ {a}

\* a start that constructs a fresh playback context for every session
NeedsContextEachStart(ref) == TRUE

\* line 170: if (!audioContextRef.current) audioContextRef.current = new ...
NeedsContext(ref) == ref = NULL

\* Header.onToggleLive (line 290) calls startLiveSession whenever the rendered
\* isLiveActive is false.  Lines 170-171 up to the first await: the playback
\* context is created if the ref is empty; a suspended context is resumed.
startLiveSession(a) ==
  /\ UNCHANGED convVars
  /\ ~isLiveActive
  /\ NextAttempt(a)
  /\ IF NeedsContext(audioContextRef)
       THEN /\ audioContextRef' = ctxCreated + 1
            /\ ctxCreated' = ctxCreated + 1
       ELSE UNCHANGED <<audioContextRef, ctxCreated>>
  /\ \E suspended \in BOOLEAN :
       pc' = [pc EXCEPT ![a] = IF suspended THEN "resume" ELSE "getUserMedia"]
  /\ openable' = IF Idle THEN openable \cup {a} ELSE openable
  /\ Event("start")
  /\ UNCHANGED sendVars
  /\ UNCHANGED <<isLiveActive, isModelSpeaking, userVolume, transcriptions,
                 liveSessionRef, audioSourcesRef, conn, capture, pending,
                 nodes, nmsgs, closeCalls, arrivedOut, arrivedIn>>

\* line 171: await audioContextRef.current.resume() settles
resumeSettled(a) ==
  /\ UNCHANGED convVars
  /\ pc[a] = "resume"
  /\ \E ok \in BOOLEAN :
       IF ok THEN /\ pc' = [pc EXCEPT ![a] = "getUserMedia"]
                  /\ UNCHANGED <<isLiveActive, openable>>
             ELSE StartCatch(a)
  /\ Event("resume")
  /\ UNCHANGED sendVars
  /\ UNCHANGED <<isModelSpeaking, userVolume, transcriptions, audioContextRef,
                 liveSessionRef, audioSourcesRef, conn, capture, pending,
                 nodes, nmsgs, ctxCreated, closeCalls, arrivedOut, arrivedIn>>

\* lines 172-200: await getUserMedia settles.  Fulfilled: the capture nodes
\* are created, connectLive is called with the four callbacks and
\* onaudioprocess is assigned.  Rejected: the catch of line 201 runs.
getUserMediaSettled(a) ==
  /\ UNCHANGED convVars
  /\ pc[a] = "getUserMedia"
  /\ \E ok \in BOOLEAN :
       IF ok THEN /\ pc' = [pc EXCEPT ![a] = "done"]
                  /\ capture' = [capture EXCEPT ![a] = "created"]
                  /\ conn' = [conn EXCEPT ![a] = "connecting"]
                  /\ sessionPromise' = [sessionPromise EXCEPT ![a] = "pending"]
                  /\ UNCHANGED <<isLiveActive, openable>>
                  /\ Event("getUserMedia")
             ELSE /\ StartCatch(a)
                  /\ UNCHANGED <<capture, conn, sessionPromise>>
                  /\ Event("captureDenied")
  /\ UNCHANGED <<isModelSpeaking, userVolume, transcriptions, audioContextRef,
                 liveSessionRef, audioSourcesRef, pending, nodes, nmsgs,
                 ctxCreated, closeCalls, arrivedOut, arrivedIn, thenQueue,
                 sentInput, nblocks>>

\* line 177: onopen: () => { setIsLiveActive(true); source.connect(...); ... }
onopen(a) ==
  /\ UNCHANGED convVars
  /\ conn[a] = "connecting"
  /\ conn' = [conn EXCEPT ![a] = "open"]
  /\ isLiveActive' = TRUE
  /\ capture' = [capture EXCEPT ![a] = "wired"]
  /\ openable' = openable \ {a}
  /\ Event("onopen")
  /\ UNCHANGED sendVars
  /\ UNCHANGED <<isModelSpeaking, userVolume, transcriptions, audioContextRef,
                 liveSessionRef, audioSourcesRef, pc, pending, nodes, nmsgs,
                 ctxCreated, closeCalls, arrivedOut, arrivedIn>>

\* -------------------------------------------------------------- onmessage
\* the text of the delta carried by message id: the message's own number, so
\* that the order in which deltas were applied can be read off the buffers
Text(id) == <<id>>

\* line 188: setTranscriptions(p => ({ ...p, input: <delta> }))
ApplyInput(t, h) ==
  IF h.hasIn THEN [t EXCEPT !.input = Text(h.id)] ELSE t

\* an output delta that overwrites the buffer as the input delta does
ApplyOutputReplace(t, h) ==
  IF h.hasOut THEN [t EXCEPT !.output = Text(h.id)] ELSE t

\* line 189: setTranscriptions(p => ({ ...p, output: p.output + <delta> }))
ApplyOutput(t, h) ==
  IF h.hasOut THEN [t EXCEPT !.output = t.output \o Text(h.id)] ELSE t

\* lines 188-189, in this order
ApplyTranscriptions(t, h) == ApplyOutput(ApplyInput(t, h), h)

\* line 186: node.start() is called with no `when` argument, so the node's
\* output begins at once, whether or not an earlier node is still playing
StartState(busy) == "playing"

\* some node started earlier has not finished its output
Busy == \E i \in MsgIds : nodes[i] = "playing"

\* lines 178-190 up to the await of line 182 (or to the end when the message
\* carries no audio): onmessage of attempt a's transport session
onmessage(a) ==
  /\ UNCHANGED convVars
  /\ conn[a] = "open"
  /\ nmsgs < MaxMsgs
  /\ \E audio \in BOOLEAN, hasIn \in BOOLEAN, hasOut \in BOOLEAN :
       LET h == [id |-> nmsgs + 1, hasIn |-> hasIn, hasOut |-> hasOut]
       IN  /\ audio \/ hasIn \/ hasOut
           /\ IF audio /\ audioContextRef # NULL
                THEN /\ isModelSpeaking' = TRUE
                     /\ pending' = pending \cup {h}
                     /\ UNCHANGED transcriptions
                ELSE /\ transcriptions' = ApplyTranscriptions(transcriptions, h)
                     /\ UNCHANGED <<isModelSpeaking, pending>>
           /\ arrivedOut' = IF hasOut THEN arrivedOut \o Text(h.id) ELSE arrivedOut
           /\ arrivedIn' = IF hasIn THEN Text(h.id) ELSE arrivedIn
  /\ nmsgs' = nmsgs + 1
  /\ Event("onmessage")
  /\ UNCHANGED <<sendVars, openable>>
  /\ UNCHANGED <<isLiveActive, userVolume, audioContextRef, liveSessionRef,
                 audioSourcesRef, pc, conn, capture, nodes, ctxCreated,
                 closeCalls>>

\* decodeAudioData (services/geminiService) is asynchronous: the handler of a
\* message resumes when its own decode settles, at any later turn
DecodeSettled(h) == h \in pending

\* lines 182-189 after the await: the node is created, started and added to
\* the set, then the message's transcript deltas are applied
decoded(h) ==
  /\ UNCHANGED convVars
  /\ DecodeSettled(h)
  /\ pending' = pending \ {h}
  /\ nodes' = [nodes EXCEPT ![h.id] = StartState(Busy)]
  /\ audioSourcesRef' = audioSourcesRef \cup {h.id}
  /\ transcriptions' = ApplyTranscriptions(transcriptions, h)
  /\ Event("decoded")
  /\ UNCHANGED <<sendVars, openable>>
  /\ UNCHANGED <<isLiveActive, isModelSpeaking, userVolume, audioContextRef,
                 liveSessionRef, pc, conn, capture, nmsgs, ctxCreated,
                 closeCalls, arrivedOut, arrivedIn>>

\* the audio output runs on: a playing node reaches the end of its buffer
playedOut(n) ==
  /\ UNCHANGED convVars
  /\ nodes[n] = "playing"
  /\ nodes' = [nodes EXCEPT ![n] = "played"]
  /\ UNCHANGED <<isLiveActive, isModelSpeaking, userVolume, transcriptions,
                 audioContextRef, liveSessionRef, audioSourcesRef, pc, conn,
                 capture, pending, nmsgs, ctxCreated, closeCalls, arrivedOut,
                 arrivedIn, lastEvent, stopRun, sendVars, openable>>

\* an onended that only deletes its node and never clears the flag
EndedSpeakingKept(rest, prev) == prev

\* line 185: if (audioSourcesRef.current.size === 0) setIsModelSpeaking(false)
EndedSpeaking(rest, prev) == IF rest = {} THEN FALSE ELSE prev

\* a completion that dequeues the oldest node of the set, whichever node ended
EndedRemovesOldest(set, n) ==
  set \ {m \in set : \A k \in set : m <= k}

\* line 185: audioSourcesRef.current.delete(node), node being the closure's own
EndedRemoves(set, n) == set \ {n}

\* line 185: node.onended: the node played to its end, or stop() was called
onended(n) ==
  /\ UNCHANGED convVars
  /\ nodes[n] \in {"played", "stopped"}
  /\ nodes' = [nodes EXCEPT ![n] = "ended"]
  /\ audioSourcesRef' = EndedRemoves(audioSourcesRef, n)
  /\ isModelSpeaking' = EndedSpeaking(EndedRemoves(audioSourcesRef, n),
                                      isModelSpeaking)
  /\ Event("onended")
  /\ UNCHANGED <<sendVars, openable>>
  /\ UNCHANGED <<isLiveActive, userVolume, transcriptions, audioContextRef,
                 liveSessionRef, pc, conn, capture, pending, nmsgs, ctxCreated,
                 closeCalls, arrivedOut, arrivedIn>>

\* a handler that sends only through a session it already holds and drops
\* the block otherwise
ThenDropped(q, b) == q

\* line 199: sessionPromise.then(s => s?.sendRealtimeInput(...)) on a pending
\* promise: the callback joins the promise's reactions, which run in the order
\* they were registered
ThenRegistered(q, b) == Append(q, b)

\* connectLive (services/geminiService) returns a promise of the session: it
\* is fulfilled with the session at some turn after the handshake succeeded
SessionFulfilled(a) == sessionPromise[a] = "pending" /\ conn[a] = "open"

\* line 199: the promise is fulfilled and the callbacks registered by then()
\* run in registration order, each calling sendRealtimeInput with its block
sessionResolved(a) ==
  /\ UNCHANGED convVars
  /\ SessionFulfilled(a)
  /\ sessionPromise' = [sessionPromise EXCEPT ![a] = "resolved"]
  /\ sentInput' = [sentInput EXCEPT ![a] = @ \o thenQueue[a]]
  /\ thenQueue' = [thenQueue EXCEPT ![a] = <<>>]
  /\ Event("then")
  /\ UNCHANGED <<isLiveActive, isModelSpeaking, userVolume, transcriptions,
                 audioContextRef, liveSessionRef, audioSourcesRef, pc, conn,
                 capture, pending, nodes, nmsgs, ctxCreated, closeCalls,
                 arrivedOut, arrivedIn, nblocks, openable>>

\* lines 193-199: scriptProcessor.onaudioprocess of attempt a's capture
\* pipeline; blocks are delivered once onopen has connected the processor
onaudioprocess(a) ==
  /\ UNCHANGED convVars
  /\ capture[a] = "wired"
  /\ nblocks < MaxBlocks
  /\ \E level \in 0..MaxLevel : userVolume' = level
  /\ LET b == [id |-> nblocks + 1, early |-> sessionPromise[a] # "resolved"]
     IN  IF sessionPromise[a] = "resolved"
           THEN /\ sentInput' = [sentInput EXCEPT ![a] = Append(@, b)]
                /\ UNCHANGED thenQueue
           ELSE /\ thenQueue' = [thenQueue EXCEPT ![a] = ThenRegistered(@, b)]
                /\ UNCHANGED sentInput
  /\ nblocks' = nblocks + 1
  /\ Event("onaudioprocess")
  /\ UNCHANGED <<sessionPromise, openable>>
  /\ UNCHANGED <<isLiveActive, isModelSpeaking, transcriptions, audioContextRef,
                 liveSessionRef, audioSourcesRef, pc, conn, capture, pending,
                 nodes, nmsgs, ctxCreated, closeCalls, arrivedOut, arrivedIn>>

\* -------------------------------------------------------- stopLiveSession
\* a forEach without the try/catch: the first stop() that throws ends the handler
StopAbortsOnThrow(failing) == failing # {}

\* line 161: try { s.stop(); } catch(e) {}: a stop() that throws is swallowed
\* and the handler goes on
StopAborts(failing) == FALSE

\* a close written as a toggle: setIsLiveActive(v => !v)
StopLiveFlagToggle(prev) == ~prev

\* line 163: setIsLiveActive(false)
StopLiveFlag(prev) == FALSE

\* line 164: setIsModelSpeaking(false)
StopSpeakingFlag(prev) == FALSE

\* line 165: setTranscriptions({ input: '', output: '' })
StopTranscriptions(prev) == EmptyTranscriptions

\* stopLiveSession sets no volume: userVolume keeps its value
StopVolume(prev) == prev

\* a stop that stops the nodes and leaves them in the set
StopSetKept(set) == set

\* line 162: audioSourcesRef.current.clear()
StopSet(set) == {}

\* nodes of the set whose output is over and whose onended has not run yet
Finished == {n \in audioSourcesRef : nodes[n] = "played"}

\* lines 159-166, run by the caller named ev; c is the state of the transport
\* sessions when the handler is entered
StopBody(ev, c) ==
  /\ UNCHANGED convVars
  /\ IF liveSessionRef # NULL
       THEN /\ closeCalls' = closeCalls + 1
            /\ conn' = [c EXCEPT ![liveSessionRef] = "closed"]
       ELSE /\ closeCalls' = closeCalls
            /\ conn' = c
  /\ \E failing \in SUBSET Finished :
       /\ nodes' = [i \in MsgIds |->
                      IF i \in audioSourcesRef \ failing
                           /\ nodes[i] \in {"playing", "played"}
                        THEN "stopped"
                        ELSE nodes[i]]
       /\ IF StopAborts(failing)
            THEN UNCHANGED <<audioSourcesRef, isLiveActive, isModelSpeaking,
                             transcriptions, userVolume, arrivedOut, arrivedIn>>
            ELSE /\ audioSourcesRef' = StopSet(audioSourcesRef)
                 /\ isLiveActive' = StopLiveFlag(isLiveActive)
                 /\ isModelSpeaking' = StopSpeakingFlag(isModelSpeaking)
                 /\ transcriptions' = StopTranscriptions(transcriptions)
                 /\ userVolume' = StopVolume(userVolume)
                 /\ arrivedOut' = <<>>
                 /\ arrivedIn' = <<>>
  /\ lastEvent' = ev
  /\ stopRun' = stopRun + 1
  /\ openable' = {}
  /\ UNCHANGED sendVars
  /\ UNCHANGED <<audioContextRef, liveSessionRef, pc, capture, pending, nmsgs,
                 ctxCreated>>

\* the user closes the session: VoiceOverlay.onClose (line 427, rendered only
\* while isLiveActive) or Header.onToggleLive (line 290)
stopLiveSession ==
  /\ isLiveActive
  /\ StopBody("stop", conn)

\* line 191: onerror: stopLiveSession
onerror(a) ==
  /\ conn[a] \in {"connecting", "open"}
  /\ StopBody("onerror", [conn EXCEPT ![a] = "error"])

\* line 191: onclose: stopLiveSession
onclose(a) ==
  /\ conn[a] \in {"connecting", "open", "error"}
  /\ StopBody("onclose", [conn EXCEPT ![a] = "closed"])

\* ------------------------------------------------------------ behaviours
Next ==
  \/ \E a \in Attempts : startLiveSession(a)
  \/ \E a \in Attempts : resumeSettled(a)
  \/ \E a \in Attempts : getUserMediaSettled(a)
  \/ \E a \in Attempts : onopen(a)
  \/ \E a \in Attempts : sessionResolved(a)
  \/ \E a \in Attempts : onmessage(a)
  \/ \E h \in pending : decoded(h)
  \/ \E n \in MsgIds : playedOut(n)
  \/ \E n \in MsgIds : onended(n)
  \/ \E a \in Attempts : onaudioprocess(a)
  \/ stopLiveSession
  \/ \E a \in Attempts : onerror(a)
  \/ \E a \in Attempts : onclose(a)

Spec == Init /\ [][Next]_vars

\* the steps of the program other than those of the capture pipeline, which
\* neither read nor write the playback nodes and their set
PlaybackNext ==
  \/ \E a \in Attempts : startLiveSession(a)
  \/ \E a \in Attempts : resumeSettled(a)
  \/ \E a \in Attempts : getUserMediaSettled(a)
  \/ \E a \in Attempts : onopen(a)
  \/ \E a \in Attempts : onmessage(a)
  \/ \E h \in pending : decoded(h)
  \/ \E n \in MsgIds : playedOut(n)
  \/ \E n \in MsgIds : onended(n)
  \/ stopLiveSession
  \/ \E a \in Attempts : onerror(a)
  \/ \E a \in Attempts : onclose(a)

\* the playback context keeps running: a started node reaches the end of its
\* buffer, and the browser dispatches the ended event of a node that has
\* finished or was stopped
FairSpec ==
  /\ Init /\ [][PlaybackNext]_vars
  /\ \A n \in MsgIds : WF_vars(playedOut(n)) /\ WF_vars(onended(n))

\* -------------------------------------------------------- session states
\* the callers of stopLiveSession
Teardown == {"stop", "onerror", "onclose"}

\* this step is a run of stopLiveSession
StopStep == stopRun' = stopRun + 1

\* what the UI observes of a session
Observed == <<isLiveActive, isModelSpeaking, audioSourcesRef, transcriptions, userVolume>>

\* ---------------------------------------------------------------- claims
\* C1: speaking-flag consistency: after every event of a live session,
\* isModelSpeaking is true if and only if audioSourcesRef is non-empty.
SpeakingFlagConsistent ==
  isModelSpeaking <=> audioSourcesRef # {}

\* C2: gapless, non-overlapping playback: a chunk starts at the later of now
\* and the end of the chunk scheduled before it, so a chunk that arrives while
\* an earlier one is still playing waits for it, and no two chunks ever play
\* at the same time.
GaplessNoOverlap ==
  Cardinality({i \in MsgIds : nodes[i] = "playing"}) <= 1

\* C3: a start invoked while a session is Connecting or Active is rejected:
\* no new attempt begins (so no second capture pipeline is acquired and no
\* second transport connection is opened).
ConcurrentStartRejected ==
  [][~Idle => \A a \in Attempts : pc[a] = "unused" => pc'[a] = "unused"]_vars

\* C4: when the transport invokes onerror or onclose while the session is
\* Active, the teardown ends in Idle with the active set empty, speaking
\* false, both transcripts empty and the user volume reset to 0.
RemoteTeardownResets ==
  [][(isLiveActive /\ StopStep /\ lastEvent' \in {"onerror", "onclose"})
       => /\ ~isLiveActive'
          /\ audioSourcesRef' = {}
          /\ ~isModelSpeaking'
          /\ transcriptions' = EmptyTranscriptions
          /\ userVolume' = 0]_vars

\* C5: idempotent close: a run of stopLiveSession that directly follows
\* another run of it, or that starts from a released Idle session, leaves the
\* session flag, the speaking flag, the active set, the transcripts and the
\* volume as they were, and the handler runs to its end (the session is not
\* live and the set is empty after every run).
IdempotentClose ==
  [][StopStep =>
       /\ ~isLiveActive' /\ audioSourcesRef' = {}
       /\ (stopRun >= 1 => Observed' = Observed)
       /\ ((Idle /\ audioSourcesRef = {} /\ ~isModelSpeaking
              /\ transcriptions = EmptyTranscriptions) => Observed' = Observed)]_vars

\* C5 witness: stopLiveSession has run twice in a row, the second time from
\* the remote close that follows a close of a session that had played audio.
ClosedTwiceInARow ==
  /\ stopRun >= 2
  /\ lastEvent = "onclose"
  /\ \E n \in MsgIds : nodes[n] = "stopped"

\* C6: every close of a non-Idle session requests shutdown of the transport
\* session that start opened, stops all playback, releases the capture
\* resources, empties the transcripts and resets the volume to 0; no close of
\* a session whose transport was opened completes without a shutdown request.
CloseShutsTransportDown ==
  [][(~Idle /\ StopStep)
       => /\ closeCalls' = closeCalls + 1
          /\ \A a \in Attempts : conn[a] = "open" => conn'[a] # "open"
          /\ audioSourcesRef' = {}
          /\ \A a \in Attempts : capture'[a] # "wired"
          /\ transcriptions' = EmptyTranscriptions
          /\ userVolume' = 0]_vars

\* C7: after any transition to Idle (explicit close, remote close or error)
\* the capture pipeline of the session is released: once stopLiveSession has
\* run no capture pipeline is wired, so no capture-block callback publishes a
\* volume sample or sends a chunk.
CaptureReleasedOnTeardown ==
  lastEvent \in Teardown => \A a \in Attempts : capture[a] # "wired"

\* C8: Idle means released: whenever the session is Idle the active set is
\* empty, speaking is false and both transcript buffers are empty.
IdleMeansReleased ==
  Idle => /\ audioSourcesRef = {}
          /\ ~isModelSpeaking
          /\ transcriptions = EmptyTranscriptions

\* C9: capture denied: when getUserMedia fails during a start, that attempt
\* never becomes Active: no transport connection is opened and no capture
\* pipeline is created for it, the session is not live, and no state of the
\* session changes (the playback context was created before the failure).
CaptureDeniedChangesNothing ==
  [][\A a \in Attempts :
       (pc[a] = "getUserMedia" /\ pc'[a] = "failed")
         => /\ conn'[a] = "none" /\ capture'[a] = "none"
            /\ ~isLiveActive'
            /\ UNCHANGED <<isLiveActive, isModelSpeaking, userVolume,
                           transcriptions, audioSourcesRef, liveSessionRef,
                           conn, capture, pending, nodes, audioContextRef>>]_vars

\* C10: transcript deltas are applied in arrival order: once every handler of
\* a live session has run to its end, the output transcript is the
\* concatenation of the output deltas in the order their messages arrived and
\* the input transcript is the delta of the latest-arrived message with one.
TranscriptsInArrivalOrder ==
  (isLiveActive /\ pending = {})
    => /\ transcriptions.output = arrivedOut
       /\ transcriptions.input = arrivedIn

\* C11: decoded chunks are scheduled for playback in strict arrival order: the
\* node of an earlier-arrived audio message is started and added to the set
\* before the node of a later-arrived one, so while the handler of a message
\* is still waiting for its decode no later message has a node.
ScheduledInArrivalOrder ==
  \A h \in pending : \A j \in MsgIds : j > h.id => nodes[j] = "none"

\* only the first call of startLiveSession has been made
OnlyFirstStart == \A a \in Attempts : a # 1 => pc[a] = "unused"

\* C13: the happy path.  With one start and one inbound audio message: the
\* handshake of the start makes the session Active; the message's node, once
\* started, leaves speaking true with exactly that node in the set; the node's
\* onended leaves speaking false with the set empty; a close then leaves the
\* session Idle with both transcripts empty.
HappyPath ==
  [][OnlyFirstStart =>
       /\ (conn[1] = "connecting" /\ conn'[1] = "open") => Active'
       /\ (isLiveActive /\ nmsgs = 1 /\ nodes[1] = NoNode /\ nodes'[1] # NoNode)
            => (isModelSpeaking' /\ audioSourcesRef' = {1})
       /\ (isLiveActive /\ nmsgs = 1 /\ nodes[1] = "played" /\ nodes'[1] = "ended")
            => (~isModelSpeaking' /\ audioSourcesRef' = {})
       /\ StopStep => (Idle' /\ transcriptions' = EmptyTranscriptions)]_vars

\* the happy path has been walked to its end: the one node ended by itself and
\* the user's close came last
HappyPathDone ==
  /\ OnlyFirstStart /\ nmsgs = 1 /\ conn[1] = "open"
  /\ nodes[1] = "ended" /\ lastEvent = "stop"
  /\ Idle /\ ~isModelSpeaking /\ audioSourcesRef = {}
  /\ transcriptions = EmptyTranscriptions

\* C16: the playback context is process-wide and created once: over any
\* sequence of starts and closes at most one context is ever constructed, it is
\* constructed by a start that finds the ref empty (the first one), and once
\* the ref holds a context no step replaces or empties it.
PlaybackContextCreatedOnce ==
  [][/\ ctxCreated' <= 1
     /\ audioContextRef # NULL => audioContextRef' = audioContextRef
     /\ ctxCreated' # ctxCreated =>
          /\ audioContextRef = NULL /\ audioContextRef' = 1
          /\ pc[1] = "unused" /\ pc'[1] # "unused"
     /\ (\E a \in Attempts : pc[a] = "unused" /\ pc'[a] # "unused")
          => audioContextRef' = 1]_vars

\* a second session is open after the first one was closed, on the context
\* the first start constructed
SecondSessionReusesContext ==
  /\ conn[1] = "closed" /\ conn[2] = "open" /\ isLiveActive
  /\ audioContextRef = 1 /\ ctxCreated = 1

\* C17: stopAll is total.  Every run of stopLiveSession, whatever the set holds
\* and whichever of its finished nodes throw on stop(), ends with the set empty
\* and speaking false; and the onended of a node the stop has dealt with (it
\* is no longer in the set), firing while the set is empty, leaves the set
\* empty and speaking false.
StopAllTotal ==
  [][/\ StopStep => (audioSourcesRef' = {} /\ ~isModelSpeaking')
     /\ \A n \in MsgIds :
          (/\ nodes[n] \in {"stopped", "played"} /\ nodes'[n] = "ended"
           /\ n \notin audioSourcesRef /\ audioSourcesRef = {})
            => (audioSourcesRef' = {} /\ ~isModelSpeaking')]_vars

\* a close has just run over a set that held a node whose output was over and
\* whose stop() threw: the node is out of the set and was not stopped
StoppedOverFinishedNode ==
  /\ lastEvent \in Teardown
  /\ \E n \in MsgIds : nodes[n] = "played" /\ n \notin audioSourcesRef
  /\ audioSourcesRef = {} /\ ~isModelSpeaking

\* C18: completion is keyed by node identity.  Whatever nodes are in the set
\* and whichever of them ends, its onended removes that node and no other, and
\* speaking is set false by the callback that empties the set and is left as
\* it was by every other one.
CompletionKeyedByIdentity ==
  [][\A n \in MsgIds :
       (n \in audioSourcesRef /\ nodes[n] = "played" /\ nodes'[n] = "ended")
         => /\ audioSourcesRef' = audioSourcesRef \ {n}
            /\ audioSourcesRef' = {} => ~isModelSpeaking'
            /\ audioSourcesRef' # {} => isModelSpeaking' = isModelSpeaking]_vars

\* the later of two nodes has ended first and the earlier one is still in the
\* set, with speaking still true
LaterNodeEndedFirst ==
  /\ MaxMsgs >= 2
  /\ nodes[2] = "ended" /\ audioSourcesRef = {1}
  /\ nodes[1] \in {"playing", "played"} /\ isModelSpeaking

IsPrefix(p, q) == Len(p) <= Len(q) /\ SubSeq(q, 1, Len(p)) = p

\* C15: the transcripts are reset on session start: while the session stays
\* live the output buffer only grows by appending, and at the moment a new
\* session is started both buffers are empty, whatever happened in and after
\* the session before it.
TranscriptsResetOnStart ==
  [][/\ (isLiveActive /\ isLiveActive')
          => IsPrefix(transcriptions.output, transcriptions'.output)
     /\ (\E a \in Attempts : pc[a] = "unused" /\ pc'[a] # "unused")
          => transcriptions' = EmptyTranscriptions]_vars

\* C14: the shape of the session state machine.  The handshake that makes the
\* session Active belongs to a start that was issued from Idle and that no
\* close has overtaken; nothing but a handshake makes the session Active; and
\* an Idle session stays Idle until startLiveSession is called again.
ActiveOnlyThroughHandshake ==
  [][/\ \A a \in Attempts :
          (conn[a] = "connecting" /\ conn'[a] = "open") => a \in openable
     /\ (~isLiveActive /\ isLiveActive')
          => \E a \in Attempts : conn[a] = "connecting" /\ conn'[a] = "open"
     /\ (Idle /\ ~Idle')
          => \E a \in Attempts : pc[a] = "unused" /\ pc'[a] # "unused"]_vars

\* the blocks handed to attempt a's session so far, sent or still waiting
Handed(a) == sentInput[a] \o thenQueue[a]

\* C12: encoded chunks are forwarded in strict block-arrival order.  Every
\* capture block delivered is handed to exactly one sendRealtimeInput call: it
\* appears once, in one pipeline, sent or waiting for the session promise; the
\* calls of a pipeline are in the order its blocks arrived, the blocks captured
\* before the promise was fulfilled included; and once the promise is
\* fulfilled no block is left waiting.
ForwardedInBlockOrder ==
  /\ \A a \in Attempts :
       /\ \A i, j \in 1..Len(Handed(a)) :
            i < j => Handed(a)[i].id < Handed(a)[j].id
       /\ sessionPromise[a] = "resolved" => thenQueue[a] = <<>>
       /\ \A i \in 1..Len(sentInput[a]) : \A j \in 1..Len(thenQueue[a]) :
            sentInput[a][i].id < thenQueue[a][j].id
  /\ \A b \in 1..nblocks :
       \E a \in Attempts :
         /\ \E i \in 1..Len(Handed(a)) : Handed(a)[i].id = b
         /\ \A c \in Attempts \ {a} :
              \A i \in 1..Len(Handed(c)) : Handed(c)[i].id # b

\* in a live session a block captured before the session promise was fulfilled
\* and a block captured after it have both been sent, in this order
EarlyAndLateBlockSent ==
  /\ isLiveActive
  /\ \E a \in Attempts :
       /\ Len(sentInput[a]) >= 2
       /\ sentInput[a][1].early /\ ~sentInput[a][2].early
       /\ sentInput[a][1].id < sentInput[a][2].id

\* C20: node ownership.  Every node in the set has been started and its
\* onended has not run; and every node that enters the set is eventually out
\* of it again, removed by its onended or by stopLiveSession.
HandleOwnership ==
  /\ [](\A n \in audioSourcesRef : nodes[n] \in {"playing", "played"})
  /\ \A n \in MsgIds : (n \in audioSourcesRef) ~> (n \notin audioSourcesRef)

\* one node has left the set through stopLiveSession, its onended still to
\* come, and another through its own onended
RemovedByStopAndByCallback ==
  /\ audioSourcesRef = {}
  /\ \E n, m \in MsgIds : nodes[n] = "stopped" /\ nodes[m] = "ended"

\* ------------------------------------------------- float-to-int16 conversion
\* line 198: the factor of data[i] * 32768
Scale == 32768

\* line 197: an Int16Array element holds its value modulo 2^16
Int16Modulus == 65536

\* a sample is written as the integer k standing for k / Unit, so that 1.0 is
\* Unit and one int16 step is Grain of these units
Unit == Scale * Grain

\* line 194: getChannelData delivers samples in [-1.0, 1.0]
Samples == (0 - Unit)..Unit

\* line 198: data[i] * 32768, exact in floating point (a power of two): k / Unit
\* times Scale is the fraction k / (Unit / Scale)
Scaled(k) == [num |-> k, den |-> Unit \div Scale]

\* a conversion that rounds to the nearest integer, as Math.round does
TruncNearest(q) == (2 * q.num + q.den) \div (2 * q.den)

\* line 198: storing a number in an Int16Array first drops its fraction,
\* towards zero
TruncToZero(q) ==
  IF q.num >= 0 THEN q.num \div q.den ELSE 0 - ((0 - q.num) \div q.den)

\* line 198: the integer is then reduced modulo 2^16 into [-2^15, 2^15 - 1]
ToInt16(n) ==
  LET m == n % Int16Modulus
  IN  IF m >= Int16Modulus \div 2 THEN m - Int16Modulus ELSE m

\* lines 197-198: one turn of the loop, over a block of one sample:
\* int16[i] = data[i] * 32768
quantize ==
  /\ loopI = 0
  /\ int16' = ToInt16(TruncToZero(Scaled(data)))
  /\ loopI' = loopI + 1
  /\ UNCHANGED <<appVars, data>>

\* line 197: new Int16Array(data.length) is zero-filled; the block holds any
\* sample of the grid
ConvInit ==
  /\ AppInit
  /\ data \in Samples /\ int16 = 0 /\ loopI = 0

ConvSpec == ConvInit /\ [][quantize]_vars

\* the absolute value of an integer
Abs(n) == IF n >= 0 THEN n ELSE 0 - n

\* C21: float-to-int16 conversion.  The value written for a sample s in
\* [-1.0, 1.0) is s * 32768 with its fraction dropped towards zero, neither
\* rounded nor clamped: it has the sign of s, its magnitude is the largest
\* integer not above |s| * 32768, and it lies in [-32768, 32767].  For
\* s = +1.0 the product 32768 is outside the 16-bit range and the value
\* written is 32768 - 2^16 = -32768.
QuantizedByTruncation ==
  loopI = 1 =>
    IF data < Unit
      THEN /\ int16 \in (0 - Scale)..(Scale - 1)
           /\ data >= 0 => int16 >= 0
           /\ data <= 0 => int16 <= 0
           /\ Abs(int16) * Grain <= Abs(data)
           /\ Abs(data) < (Abs(int16) + 1) * Grain
      ELSE int16 = Scale - Int16Modulus

\* the sample +1.0 has been converted and the element holds -32768
FullScaleWrapped ==
  /\ loopI = 1 /\ data = Unit
  /\ int16 = 0 - Scale

====
